---- MODULE Spec2Model ----
(***************************************************************************)
(* Endpoint discovery pipeline of the proxy:                               *)
(*   - Cache (control/destination/resolution.rs): FIFO of single-endpoint  *)
(*     updates plus the insertion-ordered set of live addresses;           *)
(*   - Resolution::poll (same file): drives the Destination.Get query and  *)
(*     feeds the cache;                                                    *)
(*   - Discover::poll / MakeStream / MakeFuture (proxy/resolve.rs): builds *)
(*     one child service per Add and reports Insert/Remove changes.        *)
(*                                                                         *)
(* Four specifications are given.  Spec is the whole pipeline driven by    *)
(* the balancer's calls to Discover::poll.  ResolutionSpec is the          *)
(* Resolution alone, polled by its consumer.  CacheSpec drives the Cache   *)
(* alone through its four methods, in any order.  LiveSpec is Spec with    *)
(* the fairness of a running call of Discover::poll.                       *)
(*                                                                         *)
(* Beside the pipeline, each with a specification of its own:              *)
(*   - TapSpec: serve_tap (app/tap.rs), the tap listener;                  *)
(*   - DnsSpec: Resolver::resolve_all_ips (dns/mod.rs);                    *)
(*   - SuffixSpec: Suffix::contains (dns/mod.rs);                          *)
(*   - AddrSpec: pb_to_sock_addr (control/destination/resolution.rs);      *)
(*   - WireSpec: Inner::poll_update on one wire message (same file);       *)
(*   - LabelSpec: pb_to_addr_meta on one WeightedAddr (same file).         *)
(***************************************************************************)
EXTENDS Integers, Sequences, FiniteSets, TLC

VARIABLES
    \* ---- Resolution / Cache (resolution.rs) ----
    queue,          \* Cache.queue : VecDeque<Update>
    addrs,          \* Cache.addrs : IndexSet<SocketAddr>, as the sequence of its entries
    inner,          \* Resolution.inner.is_some()
    stream,         \* what the current query will yield to query.poll(), oldest first
    queries,        \* number of queries opened by Client::query so far
    \* ---- Discover / MakeStream (resolve.rs) ----
    futures,        \* MakeStream.futures : the MakeFutures not yet resolved
    cancellations,  \* MakeStream.cancellations : addr -> id of the build holding the receiver (0: none)
    is_empty,       \* Discover.is_empty
    nextId,         \* identity of the next MakeFuture pushed
    poll_ready,     \* what make.poll_ready() returned in the last pass of Discover::poll ("NotCalled": the pass ended before it)
    ret,            \* what the running / last call of Discover::poll returned ("Continue": still looping)
    panicked,       \* a debug build hit debug_assert! in MakeStream::poll
    assert_failed,  \* a release build passed the place of the debug_assert! with _rm = None
    \* ---- observations of the caller of Resolution::poll in ResolutionSpec (history) ----
    lastRes,        \* value returned by the last call of Resolution::poll
    invArg,         \* Resolution::poll has observed a status with code InvalidArgument
    polledDrained,  \* the last call of Resolution::poll began after invArg with an empty queue
    reopens,        \* stream ends and non-InvalidArgument errors consumed so far
    expanding,      \* Resolution::poll has returned NoEndpoints, and no Add since
    liveAtReopen,   \* Cache.addrs when the subscription was last reopened
    \* ---- what the destination service has sent, what the balancer has seen (history) ----
    sent,           \* number of protocol events the server has sent
    sentAdds,       \* number of wire addresses in the AddSet messages sent
    sentRemoves,    \* number of wire addresses in the RemoveSet messages sent
    silenced,       \* addresses whose Remove was emitted with a build in flight and no Add since
    emptySignalled, \* Discover::poll has processed a NoEndpoints and the resolution has returned no Add since
    \* ---- observations of the Cache's caller in CacheSpec, and of the caller of
    \* ---- Resolution::poll in ResolutionSpec for observed (history) ----
    fed,            \* updates appended by the add / remove calls so far, in call order
    taken,          \* updates returned by next_update so far
    observed,       \* addresses with an observed Add and no later observed Remove
    insOrder,       \* live addresses in the order they were (last) added
    neCalls,        \* number of calls of no_endpoints
    neDirty,        \* no_endpoints has been called on a non-empty queue
    entries,        \* number of addresses passed to add and remove so far
    preQueue,       \* Cache.queue right before the last call of no_endpoints
    preLive,        \* Cache.addrs right before the last call of no_endpoints
    preOrder,       \* insOrder right before the last call of no_endpoints
    cleared,        \* the last Cache method called was no_endpoints
    \* ---- tap listener (app/tap.rs) ----
    tap_identity,   \* the expected peer identity (NoIdentity: Conditional::None)
    listener,       \* "listening", or "failed" once a step of the fold has returned Err
    conns,          \* the connections accepted so far, oldest first
    \* ---- Resolver::resolve_all_ips (dns/mod.rs) ----
    now,            \* the clock
    deadline,       \* the deadline passed to resolve_all_ips
    stage,          \* "idle" (not called), "delay", "lookup", "done": where the returned future stands
    lookup,         \* the lookup future: "none", "created", "running" (polled), "answered"
    answer,         \* what the lookup resolved with
    response,       \* what the returned future resolved with
    issuedAt,       \* the time at which the lookup future was first polled
    doneAt,         \* the time at which the returned future resolved
    \* ---- Suffix::contains (dns/mod.rs) ----
    suffix,         \* the Suffix (self)
    hostname,       \* the Name (name)
    contained,      \* {r} once suffix.contains(&hostname) has returned r ({}: not called)
    \* ---- pb_to_sock_addr (resolution.rs) ----
    tcpAddrs,       \* the wire TcpAddresses to decode
    sockAddrs,      \* what pb_to_sock_addr returned for the first Len(sockAddrs) of them
    \* ---- Inner::poll_update and pb_to_addr_meta on wire messages (resolution.rs) ----
    pbUpdate,       \* what query.poll() yielded to the last call of poll_update
    liveBefore,     \* Cache.addrs right before that call
    updateResult,   \* what that call returned ("None": not called)
    set_labels,     \* the set-level metric_labels passed to pb_to_addr_meta, in iteration order
    weighted,       \* the WeightedAddr passed to pb_to_addr_meta
    addrMeta        \* {r} once pb_to_addr_meta has returned r ({}: not called)

cacheVars == <<queue, addrs>>
resVars   == <<inner, stream, queries>>
discVars  == <<futures, cancellations, is_empty, nextId, poll_ready, ret, panicked, assert_failed>>
pollMon   == <<lastRes, invArg, polledDrained, reopens, expanding, liveAtReopen>>
resMon    == <<pollMon, sent, sentAdds, sentRemoves, silenced, emptySignalled>>
cacheMon  == <<fed, taken, observed, insOrder, neCalls, neDirty, entries, preQueue, preLive, preOrder, cleared>>
pipelineVars == <<cacheVars, resVars, discVars, resMon, cacheMon>>
tapVars   == <<tap_identity, listener, conns>>
dnsVars   == <<now, deadline, stage, lookup, answer, response, issuedAt, doneAt>>
sfxVars   == <<suffix, hostname, contained>>
addrVars  == <<tcpAddrs, sockAddrs>>
wireVars  == <<pbUpdate, liveBefore, updateResult, set_labels, weighted, addrMeta>>
sideVars  == <<tapVars, dnsVars, sfxVars, addrVars, wireVars>>
vars      == <<pipelineVars, sideVars>>

----------------------------------------------------------------------------
(* Bounds *)

NumAddrs      == 2   \* socket addresses in Spec
MaxMsgs       == 3   \* protocol events sent by the server in one run
MaxAdds       == 2   \* wire addresses in all the AddSet messages of one run together
MaxRemoves    == 2   \* wire addresses in all the RemoveSet messages of one run together
NumCacheAddrs   == 3   \* socket addresses in CacheSpec
MaxCacheEntries == 4   \* addresses passed to add and remove in one run of CacheSpec
MaxNoEndpoints  == 1   \* calls of no_endpoints in one run of CacheSpec
NumIds        == 2   \* peer identities in TapSpec
MaxConns      == 2   \* connections accepted in one run of TapSpec
MaxNameLen    == 4   \* characters of a Name in SuffixSpec
MaxTime       == 3   \* last instant of the clock in DnsSpec
NumIps        == 2   \* IP addresses a lookup can return in DnsSpec
NumWire       == 2   \* wire addresses decoded in one run of AddrSpec
MaxEntries    == 2   \* entries of an AddSet or RemoveSet message in WireSpec
NumKeys       == 3   \* label keys in LabelSpec

Addrs      == 1..NumAddrs
CacheAddrs == 1..NumCacheAddrs

----------------------------------------------------------------------------
(* Helpers on sequences *)

Range(s) == {s[i] : i \in 1..Len(s)}

SeqsUpTo(S, n) == UNION {[1..k -> S] : k \in 0..n}

IndexOf(s, a) == CHOOSE i \in 1..Len(s) : s[i] = a

\* s without a, the order of the others kept
Without(s, a) == SelectSeq(s, LAMBDA x : x # a)

----------------------------------------------------------------------------
(* Update<T> (resolve.rs) *)

Add(a)      == [type |-> "Add", addr |-> a]
Remove(a)   == [type |-> "Remove", addr |-> a]
NoEndpoints == [type |-> "NoEndpoints", addr |-> 0]
NotReady    == [type |-> "NotReady", addr |-> 0]

----------------------------------------------------------------------------
(* indexmap::IndexSet, as used for Cache.addrs *)

\* IndexSet::insert: a new value goes last, a present one keeps its place
IndexSetInsert(s, a) == IF a \in Range(s) THEN s ELSE Append(s, a)

\* IndexSet::remove that leaves the value in the set: a faulty variant of IndexSetRemove
IndexSetRemoveNothing(s, a) == s

\* IndexSet::remove is swap_remove: the last entry takes the place of the removed one
IndexSetRemove(s, a) ==
    IF a \notin Range(s) THEN s
    ELSE LET i == IndexOf(s, a)
             n == Len(s)
         IN  [j \in 1..(n - 1) |-> IF j = i THEN s[n] ELSE s[j]]

----------------------------------------------------------------------------
(* impl Cache.  A cache is the record [queue, addrs]. *)

\* Cache::add
RECURSIVE CacheAdd(_, _)
CacheAdd(c, as) ==
    IF as = <<>> THEN c
    ELSE CacheAdd([queue |-> Append(c.queue, Add(Head(as))),
                   addrs |-> IndexSetInsert(c.addrs, Head(as))],
                  Tail(as))

\* Cache::remove
RECURSIVE CacheRemove(_, _)
CacheRemove(c, as) ==
    IF as = <<>> THEN c
    ELSE CacheRemove([queue |-> Append(c.queue, Remove(Head(as))),
                      addrs |-> IndexSetRemove(c.addrs, Head(as))],
                     Tail(as))

\* Cache::no_endpoints without queue.clear(): a faulty variant of CacheNoEndpoints
CacheNoEndpointsNoClear(c) ==
    [queue |-> <<NoEndpoints>> \o c.queue \o [i \in 1..Len(c.addrs) |-> Remove(c.addrs[i])],
     addrs |-> <<>>]

\* Cache::no_endpoints that forgets the live addresses without a Remove: a faulty
\* variant of CacheNoEndpoints
CacheNoEndpointsNoRemoves(c) == [queue |-> <<NoEndpoints>>, addrs |-> <<>>]

\* Cache::no_endpoints
CacheNoEndpoints(c) ==
    [queue |-> <<NoEndpoints>> \o [i \in 1..Len(c.addrs) |-> Remove(c.addrs[i])],
     addrs |-> <<>>]

\* Cache::next_update that returns the newest update: a faulty variant of CacheNextUpdate
CacheNextUpdateBack(c) ==
    [cache |-> [c EXCEPT !.queue = SubSeq(c.queue, 1, Len(c.queue) - 1)],
     update |-> c.queue[Len(c.queue)]]

\* Cache::next_update on a non-empty queue: the cache left and the update returned
CacheNextUpdate(c) ==
    [cache |-> [c EXCEPT !.queue = Tail(c.queue)], update |-> Head(c.queue)]

----------------------------------------------------------------------------
(* The Destination.Get response stream, as query.poll() sees it.  An event  *)
(* is [type, addrs]: a message (AddSet, RemoveSet, NoEndpoints, or Empty   *)
(* for a message whose update is None), the end of the stream (End), or an *)
(* error status (InvalidArgument, OtherError).  A wire address is a socket *)
(* address or NoIp, a TcpAddress whose ip or ip.ip is None.                *)

NoIp == 0

WireAddrs == Addrs \cup {NoIp}

Msg(t, as) == [type |-> t, addrs |-> as]

Events ==
    {Msg("AddSet", as) : as \in SeqsUpTo(WireAddrs, MaxAdds)}
    \cup {Msg("RemoveSet", as) : as \in SeqsUpTo(WireAddrs, MaxRemoves)}
    \cup {Msg(t, <<>>) : t \in {"NoEndpoints", "Empty", "End", "InvalidArgument", "OtherError"}}

\* r_set.addrs.into_iter().filter_map(pb_to_sock_addr), and the same through
\* pb_to_addr_meta for an AddSet: the entries without an IP yield nothing
FilterMapSockAddr(pbs) == SelectSeq(pbs, LAMBDA pb : pb # NoIp)

----------------------------------------------------------------------------
(* Resolution.  A resolution is the record [queue, addrs, inner, stream,   *)
(* queries]; poll_update and Resolution::poll add the field res.           *)

CacheOf(r) == [queue |-> r.queue, addrs |-> r.addrs]

WithCache(r, c) == [r EXCEPT !.queue = c.queue, !.addrs = c.addrs]

\* Inner::reconnect that opens nothing: a faulty variant of reconnect
reconnectNothing(r) == r

\* Inner::reconnect on a Resolution that starts afresh with an empty cache: a faulty
\* variant of reconnect
reconnectClearsCache(r) == [r EXCEPT !.queries = @ + 1, !.queue = <<>>, !.addrs = <<>>]

\* Inner::reconnect: self.query = self.client.query(auth, "reconnect")
reconnect(r) == [r EXCEPT !.queries = @ + 1]

\* Inner::poll_update.  res is "NotReady", "Ready", or the code of the Err status.
poll_update(r) ==
    IF r.stream = <<>> THEN [st |-> r, res |-> "NotReady"]
    ELSE LET ev   == Head(r.stream)
             rest == [r EXCEPT !.stream = Tail(@)]
         IN  CASE ev.type = "AddSet" ->
                    [st |-> WithCache(rest, CacheAdd(CacheOf(r), FilterMapSockAddr(ev.addrs))),
                     res |-> "Ready"]
               [] ev.type = "RemoveSet" ->
                    [st |-> WithCache(rest, CacheRemove(CacheOf(r), FilterMapSockAddr(ev.addrs))),
                     res |-> "Ready"]
               [] ev.type = "NoEndpoints" ->
                    [st |-> WithCache(rest, CacheNoEndpoints(CacheOf(r))), res |-> "Ready"]
               [] ev.type = "Empty" -> [st |-> rest, res |-> "Ready"]
               [] ev.type = "End" -> [st |-> reconnect(rest), res |-> "Ready"]
               [] OTHER -> [st |-> rest, res |-> ev.type]

\* The InvalidArgument arm handled like any other error: a faulty variant of InvalidArgumentArm
InvalidArgumentArmReconnects(r) == reconnect(r)

\* Resolution::poll, the arm for Err(status) with code InvalidArgument, and the
\* inner.take() that follows it
InvalidArgumentArm(r) == [WithCache(r, CacheNoEndpoints(CacheOf(r))) EXCEPT !.inner = FALSE]

\* Resolution::poll, the arm for any other Err
OtherErrorArm(r) == reconnect(r)

\* Resolution::poll
RECURSIVE ResolutionPoll(_)
ResolutionPoll(r) ==
    IF r.queue # <<>>
    THEN LET n == CacheNextUpdate(CacheOf(r))
         IN  [st |-> WithCache(r, n.cache), res |-> n.update]
    ELSE IF r.inner
    THEN LET p == poll_update(r)
         IN  CASE p.res = "Ready" -> ResolutionPoll(p.st)
               [] p.res = "NotReady" -> [st |-> r, res |-> NotReady]
               [] p.res = "InvalidArgument" -> ResolutionPoll(InvalidArgumentArm(p.st))
               [] OTHER -> ResolutionPoll(OtherErrorArm(p.st))
    ELSE ResolutionPoll(WithCache(r, CacheNoEndpoints(CacheOf(r))))

\* Resolution::new and Resolution::none
ResolutionNew == [queue |-> <<>>, addrs |-> <<>>, inner |-> TRUE, stream |-> <<>>, queries |-> 1]

ResolutionNone ==
    WithCache([queue |-> <<>>, addrs |-> <<>>, inner |-> FALSE, stream |-> <<>>, queries |-> 0],
              CacheNoEndpoints([queue |-> <<>>, addrs |-> <<>>]))

----------------------------------------------------------------------------
(* MakeStream / MakeFuture (resolve.rs).  A MakeFuture is the record        *)
(* [id, addr, inner, canceled]:                                            *)
(*   inner    : "pending", or what inner.poll() yields once polled:        *)
(*              "ok" (the service) or "err";                               *)
(*   canceled : state of the oneshot receiver: "open", "sent" (the sender  *)
(*              sent ()), "dropped" (the sender was dropped unsent, so     *)
(*              canceled.poll() yields Err(Canceled)).                     *)

NoBuild == 0

\* The receiver of build id sees its sender sent on (v = "sent") or dropped (v = "dropped")
SetCanceled(futs, id, v) ==
    {IF f.id = id /\ f.canceled = "open" THEN [f EXCEPT !.canceled = v] ELSE f : f \in futs}

\* MakeFuture::poll: "Canceled", "NotReady", "Ready" or "Inner" (the inner error)
MakeFuturePoll(f) ==
    IF f.canceled = "sent" THEN "Canceled"
    ELSE CASE f.inner = "pending" -> "NotReady"
           [] f.inner = "ok" -> "Ready"
           [] OTHER -> "Inner"

\* MakeStream::push: the handle replaces the one registered for addr, whose sender is dropped
MakeStreamPush(ms, addr, id) ==
    [futures |-> SetCanceled(ms.futures, ms.cancellations[addr], "dropped")
                    \cup {[id |-> id, addr |-> addr, inner |-> "pending", canceled |-> "open"]},
     cancellations |-> [ms.cancellations EXCEPT ![addr] = id]]

\* MakeStream::remove
MakeStreamRemove(ms, addr) ==
    [futures |-> SetCanceled(ms.futures, ms.cancellations[addr], "sent"),
     cancellations |-> [ms.cancellations EXCEPT ![addr] = NoBuild]]

\* MakeStream::poll that leaves a failed build in the futures set: a faulty variant
\* of MakeStreamPoll
MakeStreamPollKeepsFailed(ms) ==
    LET canceled == {f \in ms.futures : MakeFuturePoll(f) = "Canceled"}
        resolved == {f \in ms.futures : MakeFuturePoll(f) \in {"Ready", "Inner"}}
    IN  IF resolved = {}
        THEN {[res |-> "NotReady", addr |-> 0, rm |-> NoBuild, canceled |-> "",
               ms |-> [ms EXCEPT !.futures = @ \ canceled]]}
        ELSE {IF MakeFuturePoll(f) = "Ready"
              THEN [res |-> "Ready", addr |-> f.addr, rm |-> ms.cancellations[f.addr],
                    canceled |-> f.canceled,
                    ms |-> [futures |-> SetCanceled(ms.futures \ (gone \cup {f}),
                                                    ms.cancellations[f.addr], "dropped"),
                            cancellations |-> [ms.cancellations EXCEPT ![f.addr] = NoBuild]]]
              ELSE [res |-> "Err", addr |-> f.addr, rm |-> NoBuild, canceled |-> f.canceled,
                    ms |-> [ms EXCEPT !.futures = @ \ gone]]
              : f \in resolved, gone \in SUBSET canceled}

\* MakeStream::poll.  FuturesUnordered polls its notified futures in an order of its
\* own: the canceled ones met on the way (gone) are dropped silently, the first
\* future that resolves ends the call; with none that resolves every canceled one
\* has been met and the call ends NotReady (or Ready(None) on an empty set).
\* Each outcome is [res, addr, rm, canceled, ms]: rm is what cancellations.remove(&addr)
\* returned, canceled the state of the receiver of the future that resolved.
MakeStreamPoll(ms) ==
    LET canceled == {f \in ms.futures : MakeFuturePoll(f) = "Canceled"}
        resolved == {f \in ms.futures : MakeFuturePoll(f) \in {"Ready", "Inner"}}
    IN  IF resolved = {}
        THEN {[res |-> "NotReady", addr |-> 0, rm |-> NoBuild, canceled |-> "",
               ms |-> [ms EXCEPT !.futures = @ \ canceled]]}
        ELSE {IF MakeFuturePoll(f) = "Ready"
              THEN [res |-> "Ready", addr |-> f.addr, rm |-> ms.cancellations[f.addr],
                    canceled |-> f.canceled,
                    ms |-> [futures |-> SetCanceled(ms.futures \ (gone \cup {f}),
                                                    ms.cancellations[f.addr], "dropped"),
                            cancellations |-> [ms.cancellations EXCEPT ![f.addr] = NoBuild]]]
              ELSE [res |-> "Err", addr |-> f.addr, rm |-> NoBuild, canceled |-> f.canceled,
                    ms |-> [ms EXCEPT !.futures = @ \ (gone \cup {f})]]
              : f \in resolved, gone \in SUBSET canceled}

----------------------------------------------------------------------------
(* The components beside the pipeline, at rest.  Each has a specification  *)
(* of its own further down; the pipeline's specifications leave them here. *)

NoIdentity == 0

TapIdle == tap_identity = NoIdentity /\ listener = "listening" /\ conns = <<>>

DnsIdle ==
    /\ now = 0 /\ deadline = 0 /\ stage = "idle" /\ lookup = "none"
    /\ answer = [kind |-> "None"] /\ response = [kind |-> "None"]
    /\ issuedAt = 0 /\ doneAt = 0

SfxIdle == suffix = <<>> /\ hostname = <<>> /\ contained = {}

AddrIdle == tcpAddrs = <<>> /\ sockAddrs = <<>>

WireIdle ==
    /\ pbUpdate = [kind |-> "None"] /\ liveBefore = <<>> /\ updateResult = "None"
    /\ set_labels = <<>> /\ weighted = [addr |-> {}] /\ addrMeta = {}

SideInit == TapIdle /\ DnsIdle /\ SfxIdle /\ AddrIdle /\ WireIdle

----------------------------------------------------------------------------
(* Initial state: MakeSvc::call builds the Discover around the Resolution  *)
(* that Resolution::new or Resolution::none returned.                      *)

CacheMonInit ==
    /\ fed = <<>> /\ taken = <<>> /\ observed = {} /\ insOrder = <<>>
    /\ neCalls = 0 /\ neDirty = FALSE /\ entries = 0
    /\ preQueue = <<>> /\ preLive = <<>> /\ preOrder = <<>> /\ cleared = FALSE

DiscoverInit ==
    /\ futures = {}
    /\ cancellations = [a \in Addrs |-> NoBuild]
    /\ is_empty = FALSE
    /\ nextId = 1
    /\ poll_ready = "NotCalled"
    /\ ret = [type |-> "None", addr |-> 0, why |-> ""]
    /\ panicked = FALSE
    /\ assert_failed = FALSE

ResMonInit ==
    /\ lastRes = [type |-> "None", addr |-> 0]
    /\ invArg = FALSE /\ polledDrained = FALSE /\ reopens = 0 /\ expanding = FALSE
    /\ liveAtReopen = <<>>
    /\ sent = 0 /\ sentAdds = 0 /\ sentRemoves = 0 /\ silenced = {}
    /\ emptySignalled = FALSE

Init ==
    /\ \E r \in {ResolutionNew, ResolutionNone} :
          /\ queue = r.queue /\ addrs = r.addrs /\ inner = r.inner
          /\ stream = r.stream /\ queries = r.queries
    /\ DiscoverInit
    /\ ResMonInit
    /\ CacheMonInit
    /\ SideInit

----------------------------------------------------------------------------
(* Environment of the pipeline *)

\* The destination service sends one more event on the open query
Deliver(ev) ==
    /\ inner
    /\ sent < MaxMsgs
    /\ ev.type = "AddSet" => sentAdds + Len(ev.addrs) <= MaxAdds
    /\ ev.type = "RemoveSet" => sentRemoves + Len(ev.addrs) <= MaxRemoves
    /\ \A i \in 1..Len(stream) : stream[i].type # "InvalidArgument"
    /\ stream' = Append(stream, ev)
    /\ sent' = sent + 1
    /\ sentAdds' = sentAdds + (IF ev.type = "AddSet" THEN Len(ev.addrs) ELSE 0)
    /\ sentRemoves' = sentRemoves + (IF ev.type = "RemoveSet" THEN Len(ev.addrs) ELSE 0)
    /\ UNCHANGED <<cacheVars, inner, queries, discVars, cacheMon, pollMon, silenced>>
    /\ UNCHANGED <<emptySignalled, sideVars>>

\* The future returned by make.call(target) becomes ready, with the service or an error
BuildResolves(f, outcome) ==
    /\ f \in futures
    /\ f.inner = "pending"
    /\ futures' = (futures \ {f}) \cup {[f EXCEPT !.inner = outcome]}
    /\ UNCHANGED <<cacheVars, resVars, cacheMon, resMon>>
    /\ UNCHANGED <<cancellations, is_empty, nextId, poll_ready, ret, panicked, assert_failed>>
    /\ UNCHANGED sideVars

----------------------------------------------------------------------------
(* Discover::poll.  Each action is one pass of its loop, from makes.poll() *)
(* to the return or to the end of the match; ret = "Continue" says that    *)
(* the call is still running and the next pass belongs to it.              *)

Makes == [futures |-> futures, cancellations |-> cancellations]

Res == [queue |-> queue, addrs |-> addrs, inner |-> inner, stream |-> stream, queries |-> queries]

\* A Discover::poll that loops on after a Remove instead of returning it: a faulty
\* variant of Ret
RetLoopsOnRemove(t, a, w) ==
    [type |-> IF t = "Remove" THEN "Continue" ELSE t, addr |-> IF t = "Remove" THEN 0 ELSE a,
     why |-> w]

Ret(t, a, w) == [type |-> t, addr |-> a, why |-> w]

\* stream ends and non-InvalidArgument errors among the first n events of s
ReopenEvents(s, n) == Cardinality({i \in 1..n : s[i].type \in {"End", "OtherError"}})

SetMakes(ms) == futures' = ms.futures /\ cancellations' = ms.cancellations

ResolutionUntouched == UNCHANGED <<cacheVars, resVars>>

\* self.resolution.poll() returned rp
ResolutionPolled(rp) ==
    /\ queue' = rp.st.queue /\ addrs' = rp.st.addrs /\ inner' = rp.st.inner
    /\ stream' = rp.st.stream /\ queries' = rp.st.queries

\* makes.poll() yields a built service: return Change::Insert.  With no handle left
\* for the address only a build without debug assertions gets here.
PollInsert ==
    /\ ~panicked
    /\ \E m \in MakeStreamPoll(Makes) :
          /\ m.res = "Ready"
          /\ SetMakes(m.ms)
          /\ assert_failed' = (assert_failed \/ m.rm = NoBuild)
          /\ is_empty' = FALSE
          /\ ret' = Ret("Insert", m.addr, "")
    /\ ResolutionUntouched
    /\ UNCHANGED <<nextId, panicked, sent, sentAdds, sentRemoves, silenced, cacheMon, pollMon>>
    /\ UNCHANGED <<emptySignalled, sideVars>>
    /\ poll_ready' = "NotCalled"

\* makes.poll() yields a built service with no handle left for its address, in a
\* build with debug assertions: debug_assert!(_rm.is_some()) panics
PollAssertPanics ==
    /\ ~panicked /\ ~assert_failed
    /\ \E m \in MakeStreamPoll(Makes) :
          /\ m.res = "Ready" /\ m.rm = NoBuild
          /\ SetMakes(m.ms)
          /\ panicked' = TRUE
          /\ ret' = Ret("Panic", m.addr, "cancellation missing")
    /\ ResolutionUntouched
    /\ UNCHANGED <<is_empty, nextId, assert_failed, sent, sentAdds, sentRemoves, silenced, cacheMon, pollMon>>
    /\ UNCHANGED <<emptySignalled, sideVars>>
    /\ poll_ready' = "NotCalled"

\* makes.poll() yields Err(MakeError::Inner(err)): return it
PollBuildError ==
    /\ ~panicked
    /\ \E m \in MakeStreamPoll(Makes) :
          /\ m.res = "Err"
          /\ SetMakes(m.ms)
          /\ ret' = Ret("Err", m.addr, m.canceled)
    /\ ResolutionUntouched
    /\ UNCHANGED <<is_empty, nextId, panicked, assert_failed, sent, sentAdds, sentRemoves, silenced, cacheMon, pollMon>>
    /\ UNCHANGED <<emptySignalled, sideVars>>
    /\ poll_ready' = "NotCalled"

\* A Discover::poll that polls the resolution before asking the factory, and drops
\* what it pulled when the factory is not ready: a faulty variant of PollFactory
PollFactoryAfterResolution(outcome) ==
    /\ ~panicked
    /\ \E m \in MakeStreamPoll(Makes) :
          /\ m.res = "NotReady"
          /\ SetMakes(m.ms)
          /\ ret' = Ret(outcome, 0, "factory")
    /\ ResolutionPolled(ResolutionPoll(Res))
    /\ UNCHANGED <<is_empty, nextId, panicked, assert_failed, sent, sentAdds, sentRemoves, silenced, cacheMon, pollMon>>
    /\ UNCHANGED <<emptySignalled, sideVars>>
    /\ poll_ready' = outcome

\* make.poll_ready() is NotReady or Err: try_ready! returns it
PollFactory(outcome) ==
    /\ ~panicked
    /\ \E m \in MakeStreamPoll(Makes) :
          /\ m.res = "NotReady"
          /\ SetMakes(m.ms)
          /\ ret' = Ret(outcome, 0, "factory")
    /\ ResolutionUntouched
    /\ UNCHANGED <<is_empty, nextId, panicked, assert_failed, sent, sentAdds, sentRemoves, silenced, cacheMon, pollMon>>
    /\ UNCHANGED <<emptySignalled, sideVars>>
    /\ poll_ready' = outcome

\* self.resolution.poll() is NotReady: try_ready! returns it
PollResolutionNotReady ==
    /\ ~panicked
    /\ \E m \in MakeStreamPoll(Makes) :
          /\ m.res = "NotReady"
          /\ SetMakes(m.ms)
    /\ LET rp == ResolutionPoll(Res)
       IN  /\ rp.res.type = "NotReady"
           /\ ResolutionPolled(rp)
           /\ ret' = Ret("NotReady", 0, "resolution")
    /\ UNCHANGED <<is_empty, nextId, panicked, assert_failed, sent, sentAdds, sentRemoves, silenced, cacheMon, pollMon>>
    /\ UNCHANGED <<emptySignalled, sideVars>>
    /\ poll_ready' = "Ready"

\* An Add arm that clears the is-empty flag: a faulty variant of PollAdd
PollAddClearsEmpty ==
    /\ ~panicked
    /\ LET rp == ResolutionPoll(Res)
       IN  /\ rp.res.type = "Add"
           /\ ResolutionPolled(rp)
           /\ \E m \in MakeStreamPoll(Makes) :
                 /\ m.res = "NotReady"
                 /\ SetMakes(MakeStreamPush(m.ms, rp.res.addr, nextId))
           /\ nextId' = nextId + 1
           /\ silenced' = silenced \ {rp.res.addr}
           /\ ret' = Ret("Continue", 0, "")
    /\ UNCHANGED <<panicked, assert_failed, sent, sentAdds, sentRemoves, cacheMon, pollMon>>
    /\ emptySignalled' = FALSE
    /\ UNCHANGED sideVars
    /\ poll_ready' = "Ready"
    /\ is_empty' = FALSE

\* Update::Add(addr, target): make.call(target), makes.push(addr, fut), and loop
PollAdd ==
    /\ ~panicked
    /\ LET rp == ResolutionPoll(Res)
       IN  /\ rp.res.type = "Add"
           /\ ResolutionPolled(rp)
           /\ \E m \in MakeStreamPoll(Makes) :
                 /\ m.res = "NotReady"
                 /\ SetMakes(MakeStreamPush(m.ms, rp.res.addr, nextId))
           /\ nextId' = nextId + 1
           /\ silenced' = silenced \ {rp.res.addr}
           /\ ret' = Ret("Continue", 0, "")
    /\ UNCHANGED <<is_empty, panicked, assert_failed, sent, sentAdds, sentRemoves, cacheMon, pollMon>>
    /\ emptySignalled' = FALSE
    /\ UNCHANGED sideVars
    /\ poll_ready' = "Ready"

\* Update::Remove(addr): makes.remove(&addr) and return Change::Remove
PollRemove ==
    /\ ~panicked
    /\ LET rp == ResolutionPoll(Res)
       IN  /\ rp.res.type = "Remove"
           /\ ResolutionPolled(rp)
           /\ \E m \in MakeStreamPoll(Makes) :
                 /\ m.res = "NotReady"
                 /\ SetMakes(MakeStreamRemove(m.ms, rp.res.addr))
                 /\ silenced' = IF \E f \in m.ms.futures : f.addr = rp.res.addr
                                THEN silenced \cup {rp.res.addr}
                                ELSE silenced
           /\ ret' = Ret("Remove", rp.res.addr, "")
    /\ UNCHANGED <<is_empty, nextId, panicked, assert_failed, sent, sentAdds, sentRemoves, cacheMon, pollMon>>
    /\ UNCHANGED <<emptySignalled, sideVars>>
    /\ poll_ready' = "Ready"

\* Update::NoEndpoints: is_empty.store(true) and loop
PollNoEndpoints ==
    /\ ~panicked
    /\ \E m \in MakeStreamPoll(Makes) :
          /\ m.res = "NotReady"
          /\ SetMakes(m.ms)
    /\ LET rp == ResolutionPoll(Res)
       IN  /\ rp.res.type = "NoEndpoints"
           /\ ResolutionPolled(rp)
           /\ ret' = Ret("Continue", 0, "")
    /\ is_empty' = TRUE
    /\ UNCHANGED <<nextId, panicked, assert_failed, sent, sentAdds, sentRemoves, silenced, cacheMon, pollMon>>
    /\ emptySignalled' = TRUE
    /\ UNCHANGED sideVars
    /\ poll_ready' = "Ready"

Next ==
    \/ \E ev \in Events : Deliver(ev)
    \/ \E f \in futures, outcome \in {"ok", "err"} : BuildResolves(f, outcome)
    \/ PollInsert
    \/ PollAssertPanics
    \/ PollBuildError
    \/ \E outcome \in {"NotReady", "Err"} : PollFactory(outcome)
    \/ PollResolutionNotReady
    \/ PollAdd
    \/ PollRemove
    \/ PollNoEndpoints

Spec == Init /\ [][Next]_vars

----------------------------------------------------------------------------
(* ResolutionSpec: the Resolution alone, polled by its consumer.  One      *)
(* action is one call of Resolution::poll, from entry to return.           *)

\* the types of the first n events of s
ConsumedTypes(s, n) == {s[i].type : i \in 1..n}

ResolutionPollCall ==
    LET rp == ResolutionPoll(Res)
        n  == Len(stream) - Len(rp.st.stream)
    IN  /\ ResolutionPolled(rp)
        /\ lastRes' = rp.res
        /\ invArg' = (invArg \/ "InvalidArgument" \in ConsumedTypes(stream, n))
        /\ polledDrained' = (invArg /\ queue = <<>>)
        /\ reopens' = reopens + ReopenEvents(stream, n)
        \* a message that changes the live set queues an update, which ends the call:
        \* the live set is still that of the call's start when the query is reopened
        /\ liveAtReopen' = IF ReopenEvents(stream, n) > 0 THEN addrs ELSE liveAtReopen
        /\ expanding' = CASE rp.res.type = "NoEndpoints" -> TRUE
                          [] rp.res.type = "Add" -> FALSE
                          [] OTHER -> expanding
        /\ observed' = CASE rp.res.type = "Add" -> observed \cup {rp.res.addr}
                         [] rp.res.type = "Remove" -> observed \ {rp.res.addr}
                         [] OTHER -> observed
        /\ UNCHANGED <<fed, taken, insOrder, neCalls, neDirty, entries, preQueue, preLive, preOrder, cleared>>
        /\ UNCHANGED <<discVars, sent, sentAdds, sentRemoves, silenced, emptySignalled>>
        /\ UNCHANGED sideVars

ResolutionNext ==
    \/ \E ev \in Events : Deliver(ev)
    \/ ResolutionPollCall

ResolutionSpec == Init /\ [][ResolutionNext]_vars

----------------------------------------------------------------------------
(* Claims about Discover::poll and MakeStream, under Spec *)

\* C1 (cancellation silence): no Change::Insert(a, _) is returned for an address a
\* whose Change::Remove was emitted with a build for a in flight and for which no
\* Add has been processed since, and no error returned by Discover::poll comes
\* from a build that was canceled.
C1_CancellationSilence ==
    /\ ret.type = "Insert" => ret.addr \notin silenced
    /\ ret.type = "Err" => ret.why # "sent"

\* C2 (at most one in-flight build per address): for every address the futures set
\* holds at most one build that has not been canceled, and it is the build whose
\* cancellation handle is registered under the address.
C2_OneBuildPerAddress ==
    \A a \in Addrs :
        LET inflight == {f \in futures : f.addr = a /\ f.canceled # "sent"}
        IN  /\ Cardinality(inflight) <= 1
            /\ \A f \in inflight : cancellations[a] = f.id

\* C3 (the debug assertion of MakeStream::poll never fails): whenever a build
\* completes with (addr, svc), cancellations.remove(&addr) returns a handle.
C3_CancellationPresent == ~panicked /\ ~assert_failed

----------------------------------------------------------------------------
(* Claims about Resolution::poll, under ResolutionSpec *)

\* C4 (InvalidArgument: NoEndpoints, then pending forever): a call of
\* Resolution::poll made after InvalidArgument was observed, with the NoEndpoints
\* and the Removes that followed it already delivered, returns NotReady.
C4_PendsAfterInvalidArgument == polledDrained => lastRes.type = "NotReady"

\* C5 (InvalidArgument is terminal): once Resolution::poll has observed
\* InvalidArgument the subscription handle is gone, and no later call opens a query.
C5_InvalidArgumentTerminal ==
    [][(invArg' => ~inner') /\ (invArg => queries' = queries)]_vars

\* a call of Resolution::poll was made after InvalidArgument had been observed
C5_Witness == invArg /\ polledDrained /\ queries = 1 + reopens /\ reopens >= 1

\* C6 (transparent reconnect): every stream end and every error other than
\* InvalidArgument consumed has opened one new query, the subscription stays
\* open through them, and Resolution::poll returns an update or NotReady, never
\* an error.
C6_TransparentReconnect ==
    /\ lastRes.type \in {"None", "Add", "Remove", "NoEndpoints", "NotReady"}
    /\ queries = (IF inner \/ invArg THEN 1 ELSE 0) + reopens
    /\ (queries >= 1 /\ ~invArg) => inner

\* a stream end and an error have both been met, and updates came after them
C6_Witness == reopens >= 2 /\ inner /\ lastRes.type = "Add"

----------------------------------------------------------------------------
(* CacheSpec: the Cache alone.  One action is one call of one of its       *)
(* methods; the caller records what it passed and what it got back.        *)

CacheNow == [queue |-> queue, addrs |-> addrs]

SetCache(c) == queue' = c.queue /\ addrs' = c.addrs

NotCleared == cleared' = FALSE /\ UNCHANGED <<preQueue, preLive, preOrder>>

\* the live addresses in insertion order, after adding those of as
RECURSIVE Inserted(_, _)
Inserted(order, as) ==
    IF as = <<>> THEN order
    ELSE Inserted(IF Head(as) \in Range(order) THEN order ELSE Append(order, Head(as)), Tail(as))

\* the live addresses in insertion order, after removing those of as
RECURSIVE Removed(_, _)
Removed(order, as) == IF as = <<>> THEN order ELSE Removed(Without(order, Head(as)), Tail(as))

\* the pipeline at rest: an empty cache, nothing sent, nothing built
PipelineIdle ==
    /\ queue = <<>> /\ addrs = <<>>
    /\ inner = TRUE /\ stream = <<>> /\ queries = 1
    /\ DiscoverInit
    /\ ResMonInit
    /\ CacheMonInit

CacheInit == PipelineIdle /\ SideInit

AddCall(as) ==
    /\ entries + Len(as) <= MaxCacheEntries
    /\ SetCache(CacheAdd(CacheNow, as))
    /\ NotCleared
    /\ fed' = fed \o [i \in 1..Len(as) |-> Add(as[i])]
    /\ insOrder' = Inserted(insOrder, as)
    /\ entries' = entries + Len(as)
    /\ UNCHANGED <<taken, observed, neCalls, neDirty, resVars, discVars, resMon>>
    /\ UNCHANGED sideVars

RemoveCall(as) ==
    /\ entries + Len(as) <= MaxCacheEntries
    /\ SetCache(CacheRemove(CacheNow, as))
    /\ NotCleared
    /\ fed' = fed \o [i \in 1..Len(as) |-> Remove(as[i])]
    /\ insOrder' = Removed(insOrder, as)
    /\ entries' = entries + Len(as)
    /\ UNCHANGED <<taken, observed, neCalls, neDirty, resVars, discVars, resMon>>
    /\ UNCHANGED sideVars

NoEndpointsCall ==
    /\ neCalls < MaxNoEndpoints
    /\ SetCache(CacheNoEndpoints(CacheNow))
    /\ preQueue' = queue /\ preLive' = addrs /\ preOrder' = insOrder /\ cleared' = TRUE
    /\ insOrder' = <<>>
    /\ neCalls' = neCalls + 1
    /\ neDirty' = (neDirty \/ queue # <<>>)
    /\ UNCHANGED <<fed, taken, observed, entries, resVars, discVars, resMon>>
    /\ UNCHANGED sideVars

NextUpdateCall ==
    /\ queue # <<>>
    /\ LET n == CacheNextUpdate(CacheNow)
       IN  /\ SetCache(n.cache)
           /\ taken' = Append(taken, n.update)
           /\ observed' = CASE n.update.type = "Add" -> observed \cup {n.update.addr}
                            [] n.update.type = "Remove" -> observed \ {n.update.addr}
                            [] OTHER -> observed
    /\ NotCleared
    /\ UNCHANGED <<fed, insOrder, neCalls, neDirty, entries, resVars, discVars, resMon>>
    /\ UNCHANGED sideVars

CacheNext ==
    \/ \E as \in SeqsUpTo(CacheAddrs, MaxCacheEntries) : AddCall(as)
    \/ \E as \in SeqsUpTo(CacheAddrs, MaxCacheEntries) : RemoveCall(as)
    \/ NoEndpointsCall
    \/ NextUpdateCall

CacheSpec == CacheInit /\ [][CacheNext]_vars

----------------------------------------------------------------------------
(* Claims about the Cache, under CacheSpec *)

Removes(as) == [i \in 1..Len(as) |-> Remove(as[i])]

\* C7 (cache flatness), as stated: whenever the queue is drained, the addresses
\* with an observed Add and no later observed Remove are the live address set.
C7_Flatness == queue = <<>> => observed = Range(addrs)

\* C7, amended: the same, for the runs in which no_endpoints was only ever called
\* on an empty queue.
C7_FlatnessCleanCheckpoints == (queue = <<>> /\ ~neDirty) => observed = Range(addrs)

\* the queue is drained after an add, a remove and a no_endpoints on an empty queue
C7_Witness ==
    /\ queue = <<>> /\ ~neDirty /\ neCalls >= 1
    /\ observed # {}
    /\ \E i \in 1..Len(taken) : taken[i].type = "Remove"

\* C8 (NoEndpoints expansion order): right after no_endpoints() the Removes behind
\* NoEndpoints list the addresses that were live, in the order of their insertion.
C8_InsertionOrder == cleared => Tail(queue) = Removes(preOrder)

\* C9 (NoEndpoints checkpoint): right after no_endpoints() the queue is one
\* NoEndpoints followed by exactly one Remove per address that was live, nothing
\* queued before the call is left, and the live set is empty.
C9_Checkpoint ==
    cleared =>
        /\ queue # <<>> /\ Head(queue) = NoEndpoints
        /\ Len(queue) = 1 + Len(preLive)
        /\ \A a \in Range(preLive) : \E i \in 2..Len(queue) : queue[i] = Remove(a)
        /\ \A i \in 2..Len(queue) : queue[i].type = "Remove" /\ queue[i].addr \in Range(preLive)
        /\ addrs = <<>>

\* no_endpoints was just called with updates queued and two addresses live
C9_Witness == cleared /\ preQueue # <<>> /\ Len(preLive) >= 2

\* C10 (FIFO delivery): with no call of no_endpoints, the updates returned by
\* next_update followed by those still queued are the updates appended by add and
\* remove, in the order of the calls and, within a call, of its address list.
C10_Fifo == neCalls = 0 => taken \o queue = fed

\* adds and removes were appended and some of them returned, more being queued
C10_Witness ==
    /\ neCalls = 0 /\ Len(taken) >= 2 /\ Len(queue) >= 2
    /\ taken[1] # taken[2] /\ queue[1] # queue[2]

----------------------------------------------------------------------------
(* More claims about Discover::poll, under Spec.  In a step of Spec the    *)
(* resolution changes either because the server sends (sent grows) or     *)
(* because a pass of Discover::poll has polled it.                         *)

\* the builds that are in the futures set before the step and not after it
Left == {f \in futures : \A g \in futures' : g.id # f.id}

\* the step is a pass of Discover::poll that has polled the resolution
Pulled == sent' = sent /\ <<cacheVars, resVars>>' # <<cacheVars, resVars>>

\* C11 (Remove ordering): the pass of Discover::poll that pulls Remove(a) from
\* the resolution returns Change::Remove(a), pending build or not, and a
\* Change::Remove(a) is returned by no other pass, so the Change::Removes are the
\* Remove deltas in the order of the subscription; a Change::Insert(a, _) is
\* returned by a pass that takes a completed build for a out of the futures set,
\* whatever the order of the Adds.
C11_RemoveOrdering ==
    [][LET rp == ResolutionPoll(Res)
       IN  /\ (Pulled /\ rp.res.type = "Remove") => (ret'.type = "Remove" /\ ret'.addr = rp.res.addr)
           /\ (ret'.type = "Remove" /\ (ret' # ret \/ cancellations' # cancellations))
                 => (Pulled /\ rp.res = Remove(ret'.addr))
           /\ (ret'.type = "Insert" /\ (ret' # ret \/ Left # {}))
                 => \E f \in Left :
                       /\ f.addr = ret'.addr /\ f.inner = "ok"
                       /\ \A g \in Left \ {f} : g.canceled = "sent"
      ]_vars

\* Change::Remove(a) was returned with the build for a in flight (no Insert for a
\* was emitted), while the build of the other address, added later, had completed
C11_Witness ==
    /\ ret.type = "Remove" /\ ret.addr \in silenced
    /\ \E f \in futures : f.addr # ret.addr /\ f.inner = "ok" /\ f.id = nextId - 1

\* C12 (EndpointStatus reflects the last authoritative signal): once Discover::poll
\* has processed a NoEndpoints, and for as long as the resolution returns no Add
\* after it, EndpointStatus::is_empty() is true, whatever builds complete meanwhile.
C12_EmptyAfterNoEndpoints == emptySignalled => is_empty

\* C13 (build failure is surfaced once): a build that has failed and was not
\* canceled leaves the futures set only in a pass of Discover::poll that returns
\* its error, and alone; a pass that returns a build's error takes that build out
\* of the set; a build that has left the set never comes back to it and a failed
\* build never becomes a service, so the error is returned by exactly one call and
\* the build yields no Insert; an error of make.poll_ready() is returned by the
\* pass that met it, before the resolution is polled or a build started.
C13_BuildFailureOnce ==
    [][/\ \A f \in Left :
             (f.inner = "err" /\ f.canceled # "sent")
                => /\ ret'.type = "Err" /\ ret'.addr = f.addr /\ ret'.why # "factory"
                   /\ \A g \in Left \ {f} : g.canceled = "sent"
       /\ (ret'.type = "Err" /\ ret'.why # "factory" /\ (ret' # ret \/ Left # {}))
             => \E f \in Left : f.inner = "err" /\ f.canceled # "sent" /\ f.addr = ret'.addr
       /\ \A g \in futures' :
             \/ \E f \in futures : f.id = g.id /\ (f.inner = "err" => g.inner = "err")
             \/ g.id = nextId /\ nextId' > nextId
       /\ nextId' >= nextId
       /\ (ret'.why = "factory" /\ ret' # ret)
             => /\ ret'.type \in {"NotReady", "Err"}
                /\ UNCHANGED <<cacheVars, resVars, nextId, cancellations>>
      ]_vars

\* the error of a build that was not canceled has been returned, the build is out
\* of the futures set, and builds for other addresses go on
C13_Witness ==
    /\ ret.type = "Err" /\ ret.why = "open"
    /\ \A f \in futures : f.addr # ret.addr
    /\ futures # {}

----------------------------------------------------------------------------
(* TapSpec: serve_tap (app/tap.rs).  The listener folds the closure of     *)
(* lines 36-117 over the accepted connections, new_service being the       *)
(* accumulator: a step that returns Ok(new_service) hands it to the next   *)
(* connection, a step that returns Err drops it and ends the fold, whose   *)
(* error is logged by the map_err of line 118.                             *)
(* A connection is the record [peer, svc, made, state, reply]:             *)
(*   peer  : session.peer_identity() (NoIdentity: Conditional::None);      *)
(*   svc   : the service its serving future is built around: "stub",      *)
(*           "admin", or "none" when no serving future is built;           *)
(*   made  : new_service.make_service(()) was called for it;               *)
(*   state : "dropped" (the closure returned without serving),             *)
(*           "spawn_failed", "making" (spawned, the MakeService future     *)
(*           pending), "make_failed", "serving", "closed", "io_error";     *)
(*   reply : the answer to its last call ("None": no call yet).            *)

Ids == 1..NumIds

PeerIds == Ids \cup {NoIdentity}

\* An authorization that never asks for the identity: a faulty variant of Authorization
AuthorizationAdmitsAll(expected, peer) == "admin"

\* The branches of lines 65-96: what the closure goes on to do with the session
Authorization(expected, peer) ==
    IF expected # NoIdentity
    THEN IF peer # NoIdentity
         THEN IF peer # expected THEN "stub" ELSE "admin"
         ELSE "drop"
    ELSE "admin"

Conn(p, svc, made, st) == [peer |-> p, svc |-> svc, made |-> made, state |-> st, reply |-> "None"]

\* The closure of listen_and_fold on one session: the connection it leaves and the
\* Result it returns; spawned says whether spawn_local accepted the serving future
Handle(expected, peer, spawned) ==
    LET go == Authorization(expected, peer)
    IN  CASE go = "drop" -> [conn |-> Conn(peer, "none", FALSE, "dropped"), result |-> "Ok"]
          [] go = "stub" ->
                [conn |-> Conn(peer, "stub", FALSE, IF spawned THEN "serving" ELSE "spawn_failed"),
                 result |-> IF spawned THEN "Ok" ELSE "Err"]
          [] OTHER ->
                [conn |-> Conn(peer, "admin", TRUE, IF spawned THEN "making" ELSE "spawn_failed"),
                 result |-> IF spawned THEN "Ok" ELSE "Err"]

\* What a service answers to a call: the stub of lines 72-77, or the admin service
Reply(svc) == IF svc = "stub" THEN "Unauthenticated" ELSE "Admin"

TapInit ==
    /\ PipelineIdle
    /\ tap_identity \in PeerIds /\ listener = "listening" /\ conns = <<>>
    /\ DnsIdle /\ SfxIdle /\ AddrIdle /\ WireIdle

TapUnchanged == UNCHANGED <<pipelineVars, dnsVars, sfxVars, addrVars, wireVars, tap_identity>>

\* The listener accepts a session and runs the closure on it
Accept(peer, spawned) ==
    /\ listener = "listening"
    /\ Len(conns) < MaxConns
    /\ LET h == Handle(tap_identity, peer, spawned)
       IN  /\ conns' = Append(conns, h.conn)
           /\ listener' = IF h.result = "Ok" THEN "listening" ELSE "failed"
    /\ TapUnchanged

\* The future of make_service(()) resolves in the spawned task: with the service,
\* which serve_connection then serves, or with an error, which is logged
MakeServiceResolves(i, outcome) ==
    /\ i \in 1..Len(conns)
    /\ conns[i].state = "making"
    /\ conns' = [conns EXCEPT ![i].state = IF outcome = "ok" THEN "serving" ELSE "make_failed"]
    /\ UNCHANGED listener
    /\ TapUnchanged

\* A call arrives on a served connection
Call(i) ==
    /\ i \in 1..Len(conns)
    /\ conns[i].state = "serving"
    /\ conns' = [conns EXCEPT ![i].reply = Reply(conns[i].svc)]
    /\ UNCHANGED listener
    /\ TapUnchanged

\* serve_connection resolves: the peer is done, or an I/O error, which is logged
ConnectionEnds(i, outcome) ==
    /\ i \in 1..Len(conns)
    /\ conns[i].state = "serving"
    /\ conns' = [conns EXCEPT ![i].state = outcome]
    /\ UNCHANGED listener
    /\ TapUnchanged

TapNext ==
    \/ \E peer \in PeerIds, spawned \in BOOLEAN : Accept(peer, spawned)
    \/ \E i \in 1..MaxConns, outcome \in {"ok", "err"} : MakeServiceResolves(i, outcome)
    \/ \E i \in 1..MaxConns : Call(i)
    \/ \E i \in 1..MaxConns, outcome \in {"closed", "io_error"} : ConnectionEnds(i, outcome)

TapSpec == TapInit /\ [][TapNext]_vars

----------------------------------------------------------------------------
(* Claims about the tap listener, under TapSpec *)

\* the right-hand side of the authorization rule
Authorized(c) == tap_identity = NoIdentity \/ (c.peer # NoIdentity /\ c.peer = tap_identity)

Served(c) == c.state \in {"serving", "closed", "io_error"}

\* C14 (tap authorization safety), as stated: once the outcome of a connection
\* is known, the admin service produced by make_service is, or has been, served
\* on it if and only if no identity is expected or the peer has the expected one.
C14_AdminIffAuthorized ==
    \A i \in 1..Len(conns) :
        conns[i].state # "making"
            => ((conns[i].svc = "admin" /\ Served(conns[i])) <=> Authorized(conns[i]))

\* C14, amended: make_service is called for a connection, and its serving future
\* built around the admin service, if and only if no identity is expected or the
\* peer has the expected one; the admin service serves, and answers, no other
\* connection.
C14_AdminOnlyIfAuthorized ==
    \A i \in 1..Len(conns) :
        LET c == conns[i]
        IN  /\ c.made <=> Authorized(c)
            /\ c.svc = "admin" <=> Authorized(c)
            /\ (c.svc = "admin" /\ Served(c)) => Authorized(c)
            /\ c.reply = "Admin" => Authorized(c)

\* an identity is expected; a peer without the expected identity was handled and
\* got no admin service, and the peer with it has been answered by the admin service
C14_Witness ==
    /\ tap_identity # NoIdentity
    /\ \E i, j \in 1..Len(conns) :
          /\ ~Authorized(conns[i]) /\ conns[i].svc # "admin"
          /\ Authorized(conns[j]) /\ conns[j].reply = "Admin"

\* the peer has an identity and it is not the expected one
Mismatched(c) == c.peer # NoIdentity /\ c.peer # tap_identity

\* C15 (tap rejection shape), as stated: with an expected identity, a connection
\* whose peer identity is present but different is served by a stub that answers
\* Unauthenticated, the admin service never being constructed for it, and a
\* connection with no peer identity is dropped without serving anything.
C15_RejectionShape ==
    tap_identity # NoIdentity =>
        \A i \in 1..Len(conns) :
            LET c == conns[i]
            IN  /\ Mismatched(c)
                   => /\ c.svc = "stub" /\ ~c.made /\ Served(c)
                      /\ c.reply \in {"None", "Unauthenticated"}
                /\ c.peer = NoIdentity
                   => c.svc = "none" /\ ~c.made /\ c.state = "dropped" /\ c.reply = "None"

\* C16 (tap listener resilience): whatever happened to the connections handled so
\* far, the listener still holds new_service and accepts the next connection.
C16_ListenerSurvives == listener = "listening"

----------------------------------------------------------------------------
(* SuffixSpec: Suffix::contains (dns/mod.rs).  A name is the sequence of   *)
(* its characters, over an alphabet of two letters and the dot.  A Name is *)
(* a non-empty sequence of non-empty labels separated by dots, with or     *)
(* without a trailing dot; Suffix::Root is the string ".", which is no Name.*)

Chars == {"a", "b", "."}

IsName(s) ==
    /\ s # <<>> /\ s[1] # "."
    /\ \A i \in 1..(Len(s) - 1) : ~(s[i] = "." /\ s[i + 1] = ".")

Names == {s \in SeqsUpTo(Chars, MaxNameLen) : IsName(s)}

Root == <<".">>

Suffixes == Names \cup {Root}

\* str::ends_with
EndsWith(s, t) == Len(t) <= Len(s) /\ SubSeq(s, Len(s) - Len(t) + 1, Len(s)) = t

\* Name::without_trailing_dot
without_trailing_dot(n) == IF n[Len(n)] = "." THEN SubSeq(n, 1, Len(n) - 1) ELSE n

\* Suffix::contains without the test of the label boundary: a faulty variant of SuffixContains
SuffixContainsMidLabel(s, n) ==
    s = Root \/ EndsWith(without_trailing_dot(n), without_trailing_dot(s))

\* Suffix::contains
SuffixContains(s, n) ==
    IF s = Root THEN TRUE
    ELSE LET name == without_trailing_dot(n)
             sfx  == without_trailing_dot(s)
         IN  EndsWith(name, sfx)
             /\ (Len(name) = Len(sfx)
                 \/ LET idx == Len(name) - Len(sfx)
                        hd  == SubSeq(name, 1, idx)
                    IN  EndsWith(hd, <<".">>))

SuffixInit ==
    /\ PipelineIdle /\ TapIdle /\ DnsIdle /\ AddrIdle /\ WireIdle
    /\ suffix \in Suffixes /\ hostname \in Names /\ contained = {}

\* s.contains(&n)
ContainsCall ==
    /\ contained = {}
    /\ contained' = {SuffixContains(suffix, hostname)}
    /\ UNCHANGED <<suffix, hostname, pipelineVars, tapVars, dnsVars, addrVars, wireVars>>

SuffixNext == ContainsCall

SuffixSpec == SuffixInit /\ [][SuffixNext]_vars

\* x with one trailing dot stripped, and with a trailing dot
Dotless(x) == IF x[Len(x)] = "." THEN SubSeq(x, 1, Len(x) - 1) ELSE x

Dotted(x) == Dotless(x) \o <<".">>

\* C17 (suffix containment is label-aligned): contains is true iff the suffix is
\* the root or, one trailing dot stripped from each, the name equals the suffix or
\* ends with "." followed by the suffix; the result is the same with or without a
\* trailing dot on either, and a match that begins inside a label is rejected.
C17_LabelAligned ==
    \A r \in contained :
        LET n0 == Dotless(hostname)
            s0 == Dotless(suffix)
        IN  /\ r = (suffix = Root \/ n0 = s0 \/ EndsWith(n0, <<".">> \o s0))
            /\ suffix # Root =>
                  \A s2 \in {s0, Dotted(suffix)}, n2 \in {n0, Dotted(hostname)} :
                      SuffixContains(s2, n2) = r
            /\ (suffix # Root /\ Len(n0) > Len(s0) /\ n0[Len(n0) - Len(s0)] # ".")
                  => r = FALSE

\* contains has rejected a name that ends with the suffix's characters inside a
\* label, the name carrying a trailing dot and the suffix none
C17_Witness ==
    /\ contained = {FALSE} /\ suffix # Root
    /\ EndsWith(Dotless(hostname), suffix)
    /\ hostname # Dotless(hostname)

----------------------------------------------------------------------------
(* DnsSpec: Resolver::resolve_all_ips (dns/mod.rs).  The returned future   *)
(* is Delay::new(deadline).then(|_| lookup).then(|result| ..): it polls    *)
(* the Delay, and once that has resolved, with () or with a timer error,   *)
(* which the closure ignores alike, it polls the lookup future, which was  *)
(* created before the Delay and does nothing before it is polled.          *)
(* An Option is the empty set or a singleton.  The result of the lookup is *)
(* [kind, ips, valid_until]: kind "Ok" with the addresses, or the kind of  *)
(* the ResolveError, NoRecordsFound carrying valid_until.                  *)

Instants == 0..MaxTime

IpLists == {l \in SeqsUpTo(1..NumIps, NumIps) : l # <<>>}

OtherErrorKinds == {"Timeout", "Io", "Proto", "Message"}

LookupResults ==
    {[kind |-> "Ok", ips |-> l, valid_until |-> {}] : l \in IpLists}
    \cup {[kind |-> "NoRecordsFound", ips |-> <<>>, valid_until |-> v] :
             v \in {{}} \cup {{t} : t \in Instants}}
    \cup {[kind |-> k, ips |-> <<>>, valid_until |-> {}] : k \in OtherErrorKinds}

\* The closure of the second then, with NoRecordsFound left an error: a faulty
\* variant of MapResult
MapResultKeepsNoRecords(result) ==
    IF result.kind = "Ok" THEN [kind |-> "Exists", list |-> result.ips]
    ELSE [kind |-> "Err", error |-> result]

\* The closure of the second then: what the returned future resolves with
MapResult(result) ==
    CASE result.kind = "Ok" -> [kind |-> "Exists", list |-> result.ips]
      [] result.kind = "NoRecordsFound" ->
            [kind |-> "DoesNotExist", retry_after |-> result.valid_until]
      [] OTHER -> [kind |-> "Err", error |-> result]

DnsInit ==
    /\ PipelineIdle /\ TapIdle /\ SfxIdle /\ AddrIdle /\ WireIdle
    /\ DnsIdle

DnsUnchanged == UNCHANGED <<pipelineVars, tapVars, sfxVars, addrVars, wireVars>>

\* Time passes
Tick ==
    /\ now < MaxTime
    /\ now' = now + 1
    /\ UNCHANGED <<deadline, stage, lookup, answer, response, issuedAt, doneAt>>
    /\ DnsUnchanged

\* resolve_all_ips(deadline, name): creates the lookup future and the Delay
ResolveAllIps(d) ==
    /\ stage = "idle"
    /\ deadline' = d
    /\ lookup' = "created"
    /\ stage' = "delay"
    /\ UNCHANGED <<now, answer, response, issuedAt, doneAt>>
    /\ DnsUnchanged

\* Delay::poll: Ready once the deadline is reached, NotReady before, or the error
\* of the timer
DelayPoll(timer) ==
    CASE timer = "error" -> "Err"
      [] now >= deadline -> "Ready"
      [] OTHER -> "NotReady"

\* The returned future is polled while it waits for the Delay; timer says whether
\* the timer works.  When the Delay resolves, the lookup future is polled at once.
PollDelay(timer) ==
    /\ stage = "delay"
    /\ IF DelayPoll(timer) = "NotReady"
       THEN UNCHANGED <<stage, lookup, issuedAt>>
       ELSE stage' = "lookup" /\ lookup' = "running" /\ issuedAt' = now
    /\ UNCHANGED <<now, deadline, answer, response, doneAt>>
    /\ DnsUnchanged

\* The resolver gets an answer, or gives up with an error of its own
LookupAnswers(result) ==
    /\ lookup = "running"
    /\ lookup' = "answered"
    /\ answer' = result
    /\ UNCHANGED <<now, deadline, stage, response, issuedAt, doneAt>>
    /\ DnsUnchanged

\* The returned future is polled while it waits for the lookup: it resolves when
\* the lookup has
PollLookup ==
    /\ stage = "lookup"
    /\ IF lookup = "answered"
       THEN stage' = "done" /\ response' = MapResult(answer) /\ doneAt' = now
       ELSE UNCHANGED <<stage, response, doneAt>>
    /\ UNCHANGED <<now, deadline, lookup, answer, issuedAt>>
    /\ DnsUnchanged

DnsNext ==
    \/ Tick
    \/ \E d \in Instants : ResolveAllIps(d)
    \/ \E timer \in {"ok", "error"} : PollDelay(timer)
    \/ \E result \in LookupResults : LookupAnswers(result)
    \/ PollLookup

DnsSpec == DnsInit /\ [][DnsNext]_vars

\* C18 (resolve_all_ips gates the query on the deadline): the lookup is started
\* only once the deadline is reached, the returned future does not resolve before
\* the deadline, and it stays pending for as long as the lookup has no answer.
C18_GatedOnDeadline ==
    /\ lookup \in {"running", "answered"} => issuedAt >= deadline
    /\ stage = "done" => doneAt >= deadline
    /\ stage = "done" => lookup = "answered"

\* C19 (DNS error policy): the returned future resolves with Response::Exists of
\* the addresses when the lookup succeeds, with the value Response::DoesNotExist
\* carrying the error's valid_until, present or not, when the lookup fails with
\* NoRecordsFound, and with the lookup's error, unchanged, when it fails otherwise.
C19_ErrorPolicy ==
    stage = "done" =>
        /\ answer.kind = "Ok" => response = [kind |-> "Exists", list |-> answer.ips]
        /\ answer.kind = "NoRecordsFound"
              => response = [kind |-> "DoesNotExist", retry_after |-> answer.valid_until]
        /\ answer.kind \in OtherErrorKinds => response = [kind |-> "Err", error |-> answer]
        /\ answer.kind \in {"Ok", "NoRecordsFound"} \cup OtherErrorKinds

\* the lookup failed with NoRecordsFound and no valid_until, and the future has
\* resolved
C19_Witness ==
    /\ stage = "done" /\ answer.kind = "NoRecordsFound" /\ answer.valid_until = {}
    /\ response.kind = "DoesNotExist"

----------------------------------------------------------------------------
(* AddrSpec: pb_to_sock_addr (control/destination/resolution.rs).  A wire  *)
(* TcpAddress is [ip, port]; ip is [kind, word, first, last] with kind     *)
(* "None" (pb.ip is None), "Empty" (ip.ip is None), "V4" (word: u32) or    *)
(* "V6" (first, last: u64); a u64 is the pair <<high, low>> of its 32-bit  *)
(* halves.  The values are samples below 2^31, the range of TLC's          *)
(* integers.  An Option is the empty set or a singleton.                   *)

\* u16 holds the values below 2^16
PortModulus == 65536

Ports == {0, 80, 443, 65535, 65536, 65616, 2147483647}

Ipv4Words == {167772161, 2130706433}

Ipv6Halves == {[first |-> <<0, 0>>, last |-> <<0, 1>>],
               [first |-> <<536939960, 0>>, last |-> <<0, 1>>],
               [first |-> <<536939960, 16777216>>, last |-> <<255, 2130706433>>]}

WireIps ==
    {[kind |-> k, word |-> 0, first |-> <<0, 0>>, last |-> <<0, 0>>] : k \in {"None", "Empty"}}
    \cup {[kind |-> "V4", word |-> w, first |-> <<0, 0>>, last |-> <<0, 0>>] : w \in Ipv4Words}
    \cup {[kind |-> "V6", word |-> 0, first |-> h.first, last |-> h.last] : h \in Ipv6Halves}

TcpAddresses == [ip : WireIps, port : Ports]

\* (x >> n) as u8, for a u64 x and n a multiple of 8
ShiftedByte(x, n) ==
    IF n >= 32 THEN (x[1] \div (2 ^ (n - 32))) % 256 ELSE (x[2] \div (2 ^ n)) % 256

\* Ipv4Addr::from(u32): the octets, most significant first
Ipv4Octets(w) == <<w \div (2 ^ 24), (w \div (2 ^ 16)) % 256, (w \div (2 ^ 8)) % 256, w % 256>>

\* The octets array filled least significant byte first: a faulty variant of Ipv6Octets
Ipv6OctetsLittleEndian(first, last) ==
    [i \in 1..16 |-> IF i <= 8 THEN ShiftedByte(first, 8 * (i - 1))
                     ELSE ShiftedByte(last, 8 * (i - 9))]

\* the octets array of the Ipv6 arm
Ipv6Octets(first, last) ==
    [i \in 1..16 |-> IF i <= 8 THEN ShiftedByte(first, 8 * (8 - i))
                     ELSE ShiftedByte(last, 8 * (16 - i))]

\* A narrowing that saturates instead of wrapping: a faulty variant of AsU16
AsU16Saturating(p) == IF p >= PortModulus THEN PortModulus - 1 ELSE p

\* pb.port as u16
AsU16(p) == p % PortModulus

SockAddr(kind, octets, port) == [ip |-> [kind |-> kind, octets |-> octets], port |-> port]

\* pb_to_sock_addr
pb_to_sock_addr(pb) ==
    CASE pb.ip.kind = "V4" -> {SockAddr("V4", Ipv4Octets(pb.ip.word), AsU16(pb.port))}
      [] pb.ip.kind = "V6" ->
            {SockAddr("V6", Ipv6Octets(pb.ip.first, pb.ip.last), AsU16(pb.port))}
      [] OTHER -> {}

AddrInit ==
    /\ PipelineIdle /\ TapIdle /\ DnsIdle /\ SfxIdle /\ WireIdle
    /\ tcpAddrs \in [1..NumWire -> TcpAddresses]
    /\ sockAddrs = <<>>

\* pb_to_sock_addr is called on the next wire address
DecodeNext ==
    /\ Len(sockAddrs) < Len(tcpAddrs)
    /\ sockAddrs' = Append(sockAddrs, pb_to_sock_addr(tcpAddrs[Len(sockAddrs) + 1]))
    /\ UNCHANGED <<tcpAddrs, pipelineVars, tapVars, dnsVars, sfxVars, wireVars>>

AddrNext == DecodeNext

AddrSpec == AddrInit /\ [][AddrNext]_vars

\* C20 (port narrowing): a wire address with an IP decodes to a socket address,
\* whatever its port, and the port of that address is the wire port modulo 2^16;
\* two wire addresses with the same IP and ports equal modulo 2^16 decode to the
\* same socket address.
C20_PortNarrowing ==
    /\ \A i \in 1..Len(sockAddrs) :
          tcpAddrs[i].ip.kind \in {"V4", "V6"}
             => /\ sockAddrs[i] # {}
                /\ \A sa \in sockAddrs[i] :
                      sa.port = tcpAddrs[i].port % 65536 /\ sa.port \in 0..65535
    /\ \A i, j \in 1..Len(sockAddrs) :
          (/\ tcpAddrs[i].ip = tcpAddrs[j].ip
           /\ tcpAddrs[i].port % 65536 = tcpAddrs[j].port % 65536)
             => sockAddrs[i] = sockAddrs[j]

\* two wire addresses with the same IPv4 word and the ports 80 and 2^16 + 80 have
\* been decoded
C20_Witness ==
    /\ Len(sockAddrs) = 2
    /\ tcpAddrs[1].ip.kind = "V4" /\ tcpAddrs[2].ip = tcpAddrs[1].ip
    /\ tcpAddrs[1].port = 65616 /\ tcpAddrs[2].port = 80
    /\ sockAddrs[1] = sockAddrs[2] /\ sockAddrs[1] # {}

----------------------------------------------------------------------------
(* More claims about pb_to_sock_addr, under AddrSpec *)

\* the 32-bit word whose big-endian bytes are o[k], ..., o[k + 3]
BeWord(o, k) == o[k] * (2 ^ 24) + o[k + 1] * (2 ^ 16) + o[k + 2] * (2 ^ 8) + o[k + 3]

\* the two 64-bit halves of sixteen octets, each read big-endian
BeHalves(o) == [first |-> <<BeWord(o, 1), BeWord(o, 5)>>, last |-> <<BeWord(o, 9), BeWord(o, 13)>>]

\* the wire addresses decoded so far that carry an IPv6 address
DecodedV6 == {i \in 1..Len(sockAddrs) : tcpAddrs[i].ip.kind = "V6"}

\* C21 (IPv6 decoding is the big-endian inverse of the (first, last) encoding): a
\* wire address with an IPv6 (first, last) decodes to an IPv6 socket address of
\* sixteen bytes; read back as two big-endian 64-bit halves they are (first, last),
\* and two wire addresses with distinct pairs decode to distinct IP addresses.
C21_Ipv6BigEndian ==
    /\ \A i \in DecodedV6 :
          /\ sockAddrs[i] # {}
          /\ \A sa \in sockAddrs[i] :
                /\ sa.ip.kind = "V6"
                /\ DOMAIN sa.ip.octets = 1..16
                /\ \A k \in 1..16 : sa.ip.octets[k] \in 0..255
                /\ BeHalves(sa.ip.octets) = [first |-> tcpAddrs[i].ip.first, last |-> tcpAddrs[i].ip.last]
    /\ \A i, j \in DecodedV6 :
          <<tcpAddrs[i].ip.first, tcpAddrs[i].ip.last>> # <<tcpAddrs[j].ip.first, tcpAddrs[j].ip.last>>
             => \A sa \in sockAddrs[i], sb \in sockAddrs[j] : sa.ip # sb.ip

\* first = 0x20010db8_00000000, last = 1 and port 443 have been decoded to
\* [2001:db8::1]:443, beside an address with another pair
C21_Witness ==
    /\ Len(sockAddrs) = 2
    /\ tcpAddrs[1].ip.kind = "V6" /\ tcpAddrs[1].port = 443
    /\ tcpAddrs[1].ip.first = <<536939960, 0>> /\ tcpAddrs[1].ip.last = <<0, 1>>
    /\ sockAddrs[1] = {[ip |-> [kind |-> "V6",
                                 octets |-> <<32, 1, 13, 184, 0, 0, 0, 0, 0, 0, 0, 0, 0, 0, 0, 1>>],
                        port |-> 443]}
    /\ tcpAddrs[2].ip.kind = "V6" /\ tcpAddrs[2].ip.first # tcpAddrs[1].ip.first

----------------------------------------------------------------------------
(* Claims about the passes of Discover::poll, under Spec *)

\* the step is a pass of Discover::poll that has changed something
Pass ==
    /\ sent' = sent
    /\ \/ ret' # ret \/ poll_ready' # poll_ready \/ Pulled
       \/ cancellations' # cancellations \/ Left # {} \/ is_empty' # is_empty

\* the builds that makes.poll() would yield as a service or as an error
Completed == {f \in futures : MakeFuturePoll(f) \in {"Ready", "Inner"}}

\* C22 (factory readiness gates delta consumption): a pass of Discover::poll pulls
\* a delta from the resolution, starts a build and registers or takes out a
\* cancellation handle for a delta only after make.poll_ready() has returned
\* Ready in that pass; a pass in which make.poll_ready() is not ready consumes no
\* delta of any kind and leaves the is-empty flag alone; make.poll_ready() is
\* asked only when makes.poll() has no completed build to return, and a pass that
\* finds a completed service returns Change::Insert without asking the factory.
C22_FactoryGate ==
    [][Pass =>
          /\ Pulled => poll_ready' = "Ready"
          /\ nextId' # nextId => poll_ready' = "Ready"
          /\ (is_empty' /\ ~is_empty) => poll_ready' = "Ready"
          /\ poll_ready' \in {"NotReady", "Err"}
                => /\ UNCHANGED <<cacheVars, resVars, nextId, cancellations, is_empty>>
                   /\ ret' = [type |-> poll_ready', addr |-> 0, why |-> "factory"]
          /\ poll_ready' # "NotCalled" => Completed = {}
          /\ poll_ready' = "NotCalled"
                => /\ UNCHANGED <<cacheVars, resVars, nextId>>
                   /\ ret'.type \in {"Insert", "Err", "Panic"}
                   /\ \E f \in Left \cap Completed : f.addr = ret'.addr
      ]_vars

\* the factory was not ready in the last pass although the resolution has an Add
\* to give and a build is pending; nothing was consumed
C22_Witness ==
    /\ poll_ready = "NotReady" /\ ret.why = "factory"
    /\ queue # <<>> /\ Head(queue).type = "Add"
    /\ futures # {}
    /\ \E a \in Addrs : cancellations[a] # NoBuild

\* the step is a pass of Discover::poll that got as far as polling the resolution
Polled == Pass /\ poll_ready' = "Ready"

\* the step is a pass of Discover::poll that returns Change::Insert
Inserts == Pass /\ ret'.type = "Insert"

\* C23 (is-empty flag): the flag is false when the Discover is built; it becomes
\* true only in a pass that processes a NoEndpoints delta and false only in a pass
\* that returns Change::Insert, and each of the two passes leaves it true resp.
\* false; processing an Add or a Remove, dropping a canceled build and returning a
\* build's error leave it as it is.  Hence is_empty() is true exactly when a
\* NoEndpoints has been processed and no Insert returned since the last one.
C23_IsEmptyFlag ==
    /\ ~is_empty
    /\ [][LET up == ResolutionPoll(Res).res.type
          IN  /\ (is_empty' /\ ~is_empty) => (Polled /\ up = "NoEndpoints")
              /\ (~is_empty' /\ is_empty) => Inserts
              /\ (Polled /\ up = "NoEndpoints") => is_empty'
              /\ Inserts => ~is_empty'
              /\ (Polled /\ up \in {"Add", "Remove", "NotReady"}) => is_empty' = is_empty
              /\ (Pass /\ ret'.type = "Err") => is_empty' = is_empty
              /\ (Left # {} /\ ~Inserts /\ ~(Polled /\ up = "NoEndpoints")) => is_empty' = is_empty
         ]_vars

\* the flag, set by a NoEndpoints that no Add has followed, was cleared by the
\* Change::Insert just returned
C23_Witness == emptySignalled /\ ~is_empty /\ ret.type = "Insert" /\ poll_ready = "NotCalled"

----------------------------------------------------------------------------
(* WireSpec: Inner::poll_update on one message of the Destination.Get      *)
(* stream, with the entries as they are on the wire.  A WeightedAddr is    *)
(* [addr, weight, metric_labels, protocol_hint, tls_identity]; addr,       *)
(* protocol_hint and tls_identity are Options, a TlsIdentity is [strategy] *)
(* with strategy the Option of the name of a DnsLikeIdentity.  A HashMap   *)
(* of labels is the sequence of the <<key, value>> pairs in the order in   *)
(* which iter() yields them; a key is its rank in the order of Strings.    *)
(* An IndexMap is the sequence of its entries.                             *)

\* slice::sort_by on the keys: the sort is stable, entries with equal keys keep
\* their order
RECURSIVE SortByKey(_)
SortByKey(t) ==
    IF t = <<>> THEN <<>>
    ELSE LET s == SortByKey(SubSeq(t, 1, Len(t) - 1))
             e == t[Len(t)]
             n == Cardinality({i \in 1..Len(s) : s[i][1] <= e[1]})
         IN  SubSeq(s, 1, n) \o <<e>> \o SubSeq(s, n + 1, Len(s))

\* An IndexMap whose insert keeps the value already stored under a key: a faulty
\* variant of IndexMapCollect
RECURSIVE IndexMapCollectKeepsFirst(_, _)
IndexMapCollectKeepsFirst(m, t) ==
    IF t = <<>> THEN m
    ELSE IndexMapCollectKeepsFirst(IF \E i \in 1..Len(m) : m[i][1] = Head(t)[1]
                                   THEN m ELSE Append(m, Head(t)),
                                   Tail(t))

\* m.insert(k.clone(), v.clone()) for each entry of t in turn: IndexMap::insert puts
\* a new key last; a key already present keeps its place and takes the new value
RECURSIVE IndexMapCollect(_, _)
IndexMapCollect(m, t) ==
    IF t = <<>> THEN m
    ELSE LET e == Head(t)
         IN  IndexMapCollect(IF \E i \in 1..Len(m) : m[i][1] = e[1]
                             THEN [i \in 1..Len(m) |-> IF m[i][1] = e[1] THEN e ELSE m[i]]
                             ELSE Append(m, e),
                             Tail(t))

\* identity::Name::from_hostname
from_hostname(n) == IF IsName(n) THEN {n} ELSE {}

\* pb_to_id
pb_to_id(pb) == UNION {from_hostname(i) : i \in pb.strategy}

\* A pb_to_addr_meta that gives up on an entry whose identity does not decode: a
\* faulty variant of pb_to_addr_meta
pb_to_addr_meta_strict(pb, labels) ==
    LET addr == UNION {pb_to_sock_addr(a) : a \in pb.addr}
        id   == UNION {pb_to_id(i) : i \in pb.tls_identity}
    IN  {[addr |-> a,
          meta |-> [labels |-> IndexMapCollect(<<>>, SortByKey(labels \o pb.metric_labels)),
                    protocol_hint |-> "Unknown", identity |-> id, weight |-> pb.weight]]
         : a \in IF id = {} THEN {} ELSE addr}

\* pb_to_addr_meta
pb_to_addr_meta(pb, labels) ==
    LET addr == UNION {pb_to_sock_addr(a) : a \in pb.addr}
        t    == SortByKey(labels \o pb.metric_labels)
        hint == IF \E h \in pb.protocol_hint : h.protocol # {} THEN "Http2" ELSE "Unknown"
        id   == UNION {pb_to_id(i) : i \in pb.tls_identity}
    IN  {[addr |-> a,
          meta |-> [labels |-> IndexMapCollect(<<>>, t), protocol_hint |-> hint,
                    identity |-> id, weight |-> pb.weight]]
         : a \in addr}

\* Iterator::filter_map, given what the closure returned for each item: the values
\* of the Somes, in order
RECURSIVE FilterMap(_)
FilterMap(opts) ==
    IF opts = <<>> THEN <<>>
    ELSE (IF Head(opts) = {} THEN <<>> ELSE <<CHOOSE x \in Head(opts) : TRUE>>)
            \o FilterMap(Tail(opts))

\* Cache::add, with the Metadata of each endpoint
RECURSIVE CacheAddMeta(_, _)
CacheAddMeta(c, ams) ==
    IF ams = <<>> THEN c
    ELSE CacheAddMeta([queue |-> Append(c.queue, [type |-> "Add", addr |-> Head(ams).addr,
                                                  meta |-> Head(ams).meta]),
                       addrs |-> IndexSetInsert(c.addrs, Head(ams).addr)],
                      Tail(ams))

\* The wire addresses of WireSpec: without an IP envelope, without an IP, or IPv4
WireTcpAddresses == {t \in TcpAddresses : t.port = 80 /\ t.ip.kind # "V6"}

\* The entries of an AddSet: the identity is missing, without strategy, a string
\* that is no Name, or a Name
WeightedAddrs ==
    [addr : {{}} \cup {{t} : t \in WireTcpAddresses},
     weight : {1},
     metric_labels : {<<<<1, 2>>>>},
     protocol_hint : {{}},
     tls_identity : {{}, {[strategy |-> {}]}, {[strategy |-> {<<".", "a">>}]},
                     {[strategy |-> {<<"a", ".", "b">>}]}}]

\* What query.poll() yields: a message ("Empty": its update is None), the end of
\* the stream, NotReady, or an error status
PbUpdates ==
    {[kind |-> "Add", metric_labels |-> l, addrs |-> es]
        : l \in {<<>>, <<<<1, 1>>>>}, es \in SeqsUpTo(WeightedAddrs, MaxEntries)}
    \cup {[kind |-> "Remove", metric_labels |-> <<>>, addrs |-> es]
             : es \in SeqsUpTo(WireTcpAddresses, MaxEntries)}
    \cup {[kind |-> k, metric_labels |-> <<>>, addrs |-> <<>>]
             : k \in {"NoEndpoints", "Empty", "End", "NotReady", "Status"}}

\* poll_update is called with an empty queue; the live set holds what earlier
\* messages have added
WireInit ==
    /\ queue = <<>>
    /\ addrs \in {as \in SeqsUpTo(UNION {pb_to_sock_addr(t) : t \in WireTcpAddresses}, 2)
                     : \A i, j \in 1..Len(as) : as[i] = as[j] => i = j}
    /\ inner = TRUE /\ stream = <<>> /\ queries = 1
    /\ DiscoverInit /\ ResMonInit /\ CacheMonInit
    /\ TapIdle /\ DnsIdle /\ SfxIdle /\ AddrIdle /\ WireIdle

\* Inner::poll_update, query.poll() yielding update
PollUpdate(update) ==
    /\ updateResult = "None"
    /\ pbUpdate' = update
    /\ liveBefore' = addrs
    /\ SetCache(CASE update.kind = "Add" ->
                        CacheAddMeta(CacheNow,
                                     FilterMap([i \in 1..Len(update.addrs) |->
                                                  pb_to_addr_meta(update.addrs[i], update.metric_labels)]))
                  [] update.kind = "Remove" ->
                        CacheRemove(CacheNow,
                                    FilterMap([i \in 1..Len(update.addrs) |->
                                                 pb_to_sock_addr(update.addrs[i])]))
                  [] update.kind = "NoEndpoints" -> CacheNoEndpoints(CacheNow)
                  [] OTHER -> CacheNow)
    /\ queries' = IF update.kind = "End" THEN queries + 1 ELSE queries
    /\ updateResult' = CASE update.kind = "NotReady" -> "NotReady"
                         [] update.kind = "Status" -> "Err"
                         [] OTHER -> "Ready"
    /\ UNCHANGED <<inner, stream, discVars, resMon, cacheMon>>
    /\ UNCHANGED <<tapVars, dnsVars, sfxVars, addrVars, set_labels, weighted, addrMeta>>

WireNext == \E update \in PbUpdates : PollUpdate(update)

WireSpec == WireInit /\ [][WireNext]_vars

\* C24 (undecodable addresses are skipped, not fatal): after poll_update on an
\* AddSet or RemoveSet, the queue holds one update per entry that has an address
\* with an IP envelope and an IP, in the order of the message, each with the socket
\* address of its entry; the entries without one have queued nothing and the live
\* set is what it was, with the decoded addresses added resp. removed; the call
\* returned Ready and opened no query; an Add whose identity is missing, without
\* strategy or no valid Name is queued with no identity, one with a Name with it.
C24_UndecodableSkipped ==
    pbUpdate.kind \in {"Add", "Remove"} =>
        LET es == pbUpdate.addrs
            tcp(i) == IF pbUpdate.kind = "Add" THEN es[i].addr ELSE {es[i]}
            Decodable(i) == tcp(i) # {} /\ \A t \in tcp(i) : t.ip.kind \in {"V4", "V6"}
            good == {i \in 1..Len(es) : Decodable(i)}
            Pos(i) == Cardinality({k \in 1..i : Decodable(k)})
            decoded == {queue[j].addr : j \in 1..Len(queue)}
        IN  /\ Len(queue) = Cardinality(good)
            /\ \A i \in good :
                  /\ queue[Pos(i)].type = pbUpdate.kind
                  /\ \A t \in tcp(i) :
                        queue[Pos(i)].addr = [ip |-> [kind |-> "V4", octets |-> Ipv4Octets(t.ip.word)],
                                              port |-> t.port]
            /\ Range(addrs) = IF pbUpdate.kind = "Add" THEN Range(liveBefore) \cup decoded
                              ELSE Range(liveBefore) \ decoded
            /\ good = {} => addrs = liveBefore
            /\ updateResult = "Ready" /\ queries = 1 /\ inner
            /\ pbUpdate.kind = "Add" =>
                  \A i \in good :
                     LET names == UNION {id.strategy : id \in es[i].tls_identity}
                     IN  queue[Pos(i)].meta.identity = {n \in names : IsName(n)}

\* an AddSet of an entry without an IP and an entry with an address and an identity
\* that is no Name: the second alone is queued, without identity
C24_Witness ==
    /\ pbUpdate.kind = "Add" /\ Len(pbUpdate.addrs) = 2 /\ updateResult = "Ready"
    /\ \E t \in pbUpdate.addrs[1].addr : t.ip.kind = "Empty"
    /\ \E t \in pbUpdate.addrs[2].addr : t.ip.kind = "V4"
    /\ pbUpdate.addrs[2].tls_identity = {[strategy |-> {<<".", "a">>}]}
    /\ Len(queue) = 1 /\ queue[1].type = "Add" /\ queue[1].meta.identity = {}
    /\ liveBefore = <<>> /\ Len(addrs) = 1

----------------------------------------------------------------------------
(* LabelSpec: pb_to_addr_meta on one WeightedAddr with an address, for     *)
(* every pair of label maps over NumKeys keys and every order in which the *)
(* two HashMaps can iterate.  The set-level values are 1, the per-endpoint *)
(* values 2.                                                               *)

\* the orders in which a HashMap with keys among 1..NumKeys, all of value v, iterates
LabelIters(v) ==
    {[i \in 1..Len(ks) |-> <<ks[i], v>>]
        : ks \in {s \in SeqsUpTo(1..NumKeys, NumKeys) : \A i, j \in 1..Len(s) : s[i] = s[j] => i = j}}

LabelInit ==
    /\ PipelineIdle /\ TapIdle /\ DnsIdle /\ SfxIdle /\ AddrIdle
    /\ pbUpdate = [kind |-> "None"] /\ liveBefore = <<>> /\ updateResult = "None"
    /\ set_labels \in LabelIters(1)
    /\ weighted \in [addr : {{[ip |-> ip, port |-> 80]} : ip \in {w \in WireIps : w.kind = "V4"}},
                     weight : {1},
                     metric_labels : LabelIters(2),
                     protocol_hint : {{}, {[protocol |-> {}]}, {[protocol |-> {"H2"}]}},
                     tls_identity : {{}}]
    /\ addrMeta = {}

\* pb_to_addr_meta(weighted, &set_labels) is called
AddrMetaCall ==
    /\ addrMeta = {}
    /\ addrMeta' = {pb_to_addr_meta(weighted, set_labels)}
    /\ UNCHANGED <<pipelineVars, tapVars, dnsVars, sfxVars, addrVars>>
    /\ UNCHANGED <<pbUpdate, liveBefore, updateResult, set_labels, weighted>>

LabelNext == AddrMetaCall

LabelSpec == LabelInit /\ [][LabelNext]_vars

\* C25 (label merging is canonical): the labels of the Metadata hold exactly the
\* keys of the set-level and the per-endpoint map, each once, in ascending order of
\* the keys; a key of the per-endpoint map carries the per-endpoint value, any
\* other key the set-level value; so the result is the same for every order in
\* which the two HashMaps iterate.
C25_LabelsCanonical ==
    \A r \in addrMeta :
        /\ r # {}
        /\ \A am \in r :
              LET L == am.meta.labels
                  S == Range(set_labels)
                  E == Range(weighted.metric_labels)
                  keys == {e[1] : e \in S \cup E}
              IN  /\ {L[i][1] : i \in 1..Len(L)} = keys
                  /\ Len(L) = Cardinality(keys)
                  /\ \A i, j \in 1..Len(L) : i < j => L[i][1] < L[j][1]
                  /\ \A i \in 1..Len(L) :
                        IF \E e \in E : e[1] = L[i][1] THEN L[i] \in E ELSE L[i] \in S

\* both maps iterate in descending order of their keys and share the keys 1 and 2;
\* the merged labels are sorted, with the per-endpoint values for 1 and 2
C25_Witness ==
    /\ set_labels = <<<<3, 1>>, <<2, 1>>, <<1, 1>>>>
    /\ weighted.metric_labels = <<<<2, 2>>, <<1, 2>>>>
    /\ \E r \in addrMeta : \E am \in r : am.meta.labels = <<<<1, 2>>, <<2, 2>>, <<3, 1>>>>

----------------------------------------------------------------------------
(* LiveSpec: Spec with the running call of Discover::poll going on.  A     *)
(* call that has not returned runs its next pass; that the factory is      *)
(* ready when asked is assumed of these passes, not that it ever is not.   *)

\* the next pass of the call of Discover::poll that is running, the factory being
\* ready if it is asked
Running ==
    /\ ret.type = "Continue"
    /\ \/ PollInsert \/ PollAssertPanics \/ PollBuildError
       \/ PollResolutionNotReady \/ PollAdd \/ PollRemove \/ PollNoEndpoints

LiveSpec == Spec /\ WF_vars(Running)

\* C26 (Discover::poll always returns): a call of Discover::poll that is looping
\* eventually returns Ready, NotReady or Err, also once the resolution is terminal
\* (InvalidArgument observed, or built by Resolution::none), the factory being
\* ready and no build pending.
C26_PollReturns == (ret.type = "Continue") ~> (ret.type # "Continue")

----------------------------------------------------------------------------
(* More claims about Resolution::poll, under ResolutionSpec.  A step that  *)
(* sends nothing is a call of Resolution::poll.                            *)

\* C27 (Resolution::poll never discards an undelivered update): a call made with
\* updates queued returns the oldest of them and touches neither the subscription
\* nor the live set, so a message, and the no_endpoints() of InvalidArgument,
\* are processed only on an empty queue; a call returns NotReady only with the
\* queue empty; and once the consumer has observed NoEndpoints and the Removes
\* behind it, no address is left with an observed Add and no later Remove.
C27_NothingDiscarded ==
    [][sent' = sent =>
          /\ queue # <<>> => /\ lastRes' = Head(queue)
                             /\ queue' = Tail(queue)
                             /\ UNCHANGED <<addrs, inner, stream, queries>>
          /\ <<addrs, inner, stream, queries>>' # <<addrs, inner, stream, queries>> => queue = <<>>
          /\ lastRes'.type = "NotReady" => (queue = <<>> /\ queue' = <<>>)
          /\ (expanding' /\ (queue' = <<>> \/ Head(queue').type # "Remove")) => observed' = {}
      ]_vars

\* the consumer had observed the Adds of two addresses, then NoEndpoints, and has
\* drained the two Removes behind it
C27_Witness ==
    /\ expanding /\ queue = <<>> /\ observed = {}
    /\ lastRes.type = "Remove" /\ ~invArg /\ inner
    /\ sent = 2 /\ sentAdds = 2 /\ stream = <<>>

----------------------------------------------------------------------------
(* Claims about the handles of MakeStream, under Spec *)

\* C28 (no stale cancellation handles): every cancellation handle registered under
\* an address belongs to a build for that address that is still in the futures
\* set.
C28_NoStaleHandles ==
    \A a \in Addrs :
        cancellations[a] # NoBuild
           => \E f \in futures : f.id = cancellations[a] /\ f.addr = a


\* C29 (reconnect preserves the cache): a call of Resolution::poll that consumes
\* only stream ends and errors other than InvalidArgument opens one query for each
\* and leaves the queue and the live set as they were; when the first message
\* with an update after them is NoEndpoints, the addresses that were live before
\* the reopening are expanded into Removes behind it; when it is an AddSet of
\* addresses that were live before the reopening, their Adds are queued again and
\* the live set is what it was.
C29_ReconnectPreservesCache ==
    [][LET n == Len(stream) - Len(stream')
           consumed == SubSeq(stream, 1, n)
           k == ReopenEvents(stream, n)
           Reopening(m) == /\ k >= 1
                           /\ \A i \in 1..m : consumed[i].type \in {"End", "OtherError", "Empty"}
       IN  sent' = sent =>
              /\ (n >= 1 /\ k = n)
                    => /\ queue' = queue /\ addrs' = addrs
                       /\ inner' = inner /\ queries' = queries + n
                       /\ lastRes'.type = "NotReady"
              /\ (n >= 2 /\ Reopening(n - 1) /\ consumed[n].type = "NoEndpoints")
                    => /\ lastRes' = NoEndpoints
                       /\ queue' = Removes(addrs) /\ addrs' = <<>>
                       /\ queries' = queries + k
              /\ (/\ n >= 2 /\ Reopening(n - 1) /\ consumed[n].type = "AddSet"
                  /\ FilterMapSockAddr(consumed[n].addrs) # <<>>
                  /\ Range(FilterMapSockAddr(consumed[n].addrs)) \subseteq Range(addrs))
                    => /\ <<lastRes'>> \o queue'
                            = [i \in 1..Len(FilterMapSockAddr(consumed[n].addrs))
                                 |-> Add(FilterMapSockAddr(consumed[n].addrs)[i])]
                       /\ addrs' = addrs
                       /\ queries' = queries + k
      ]_vars

\* an address was live when the subscription was reopened, and the NoEndpoints
\* received on the new stream has just been returned, the Remove of that address
\* queued behind it
C29_Witness ==
    /\ reopens >= 1 /\ liveAtReopen # <<>> /\ inner /\ ~invArg
    /\ lastRes = NoEndpoints
    /\ queue = [i \in 1..Len(liveAtReopen) |-> Remove(liveAtReopen[i])]
    /\ addrs = <<>>

====
